---- MODULE Spec2Model ----
(***************************************************************************)
(* WindNote (src/windnote.py): the note store (NoteManager), the import    *)
(* paths (RequestsConverter, SeleniumManager, AdvancedImportDialog,        *)
(* MainWindow.import_from_url) and the tree drop handler                   *)
(* (DraggableTreeWidget.dropEvent).                                        *)
(*                                                                         *)
(* Strings are sequences of tokens.  A token stands for one character,     *)
(* except "md" (the two letters of the note extension) and the message     *)
(* tokens, which no code path ever splits.  A path is the sequence of its  *)
(* components below the notes root; the path string the code sees is the   *)
(* components joined by os.sep.  Timestamps are clock ticks: isoformat()   *)
(* strings of one clock order the same way as the ticks.                   *)
(***************************************************************************)
EXTENDS Integers, Sequences, FiniteSets, TLC

VARIABLES
    os_sep,      \* os.sep of the host: "/" (POSIX) or "\\" (Windows)
    fs,          \* the notes tree: path -> entry (the root <<>> is implicit)
    metadata,    \* NoteManager.metadata, the in-memory map: key -> record
    sidecar,     \* metadata.json on disk
    clock,       \* the system clock
    driver,      \* SeleniumManager.driver: "None" or "driver"
    browser,     \* the browser behind the handle: "none", "alive", "closed"
    dialog,      \* the AdvancedImportDialog: open, scrape button, status label
    selected,    \* notes_tree_widget.currentItem(): <<path>> or <<>>
    editor,      \* current_note_path, the editor's text and its modified flag
    ret          \* what the last handler did and returned

storeVars == <<fs, metadata, sidecar>>
sessionVars == <<driver, browser, dialog>>
guiVars == <<selected, editor>>

vars == <<os_sep, storeVars, clock, sessionVars, guiVars, ret>>

(* Bounds of the model.  MaxClock is how far the clock may run under
   SpecImport, MaxTreeClock under Spec; MaxEntries caps the entries of the tree
   and the keys of the map, MaxEdited the records pinned, favorited or
   summarized by hand, MaxDepth the depth of the tree. *)

MaxClock == 1
MaxTreeClock == 0
MaxEntries == 3
MaxEdited == 1
MaxDepth == 2

(* Strings. *)

\* Python's None where a string may stand; str(None) is the text "None".
PyNone == <<"<None>">>
Str(x) == IF x = PyNone THEN <<"N", "o", "n", "e">> ELSE x
Truthy(x) == x # PyNone /\ x # <<>>

\* An optional path: <<>> is None, <<p>> is the path p.
NoPath == <<>>
Some(path) == <<path>>

\* The main window before a note is opened: current_note_path is None and the
\* editor is empty and unmodified (line 735).
NoEditor == [path |-> NoPath, text |-> <<>>, modified |-> FALSE]

RECURSIVE Join(_, _)
Join(comps, sep) ==
    IF comps = <<>> THEN <<>>
    ELSE IF Len(comps) = 1 THEN comps[1]
    ELSE comps[1] \o <<sep>> \o Join(Tail(comps), sep)

\* str.replace('\\', '/')
ReplaceBackslash(s) == [i \in 1..Len(s) |-> IF s[i] = "\\" THEN "/" ELSE s[i]]

\* str.startswith
StartsWith(s, prefix) ==
    /\ Len(prefix) <= Len(s)
    /\ SubSeq(s, 1, Len(prefix)) = prefix

\* p.replace(old, new, 1) for a p that starts with old
ReplacePrefix(p, old, new) == new \o SubSeq(p, Len(old) + 1, Len(p))

\* The separators os.path splits a name on: "/" everywhere, "\\" on Windows too.
IsSep(c) == c = "/" \/ (os_sep = "\\" /\ c = "\\")

RECURSIVE SplitName(_)
\* The components of a name handed to os.path.join.
SplitName(name) ==
    IF \A i \in 1..Len(name) : ~IsSep(name[i]) THEN <<name>>
    ELSE LET k == CHOOSE i \in 1..Len(name) :
                      IsSep(name[i]) /\ \A j \in 1..(i - 1) : ~IsSep(name[j])
         IN <<SubSeq(name, 1, k - 1)>> \o SplitName(SubSeq(name, k + 1, Len(name)))

\* os.path.join(parent_dir, name)
PathJoin(parent, name) == parent \o SplitName(name)

\* os.path.dirname / os.path.basename of a path below the root
Dirname(path) == SubSeq(path, 1, Len(path) - 1)
Basename(path) == path[Len(path)]

\* rel_path = os.path.relpath(path, self.notes_dir).replace('\\', '/');
\* os.path.relpath of the notes directory itself is '.'.
RelKey(path) == ReplaceBackslash(IF path = <<>> THEN <<".">> ELSE Join(path, os_sep))

(* The filesystem. *)

DirEntry == [kind |-> "dir", data |-> <<>>, ctime |-> 0, mtime |-> 0]

Exists(path) == path = <<>> \/ path \in DOMAIN fs
IsDir(path) == path = <<>> \/ (path \in DOMAIN fs /\ fs[path].kind = "dir")
IsFile(path) == path \in DOMAIN fs /\ fs[path].kind = "file"

IsPrefixPath(p, q) == Len(p) <= Len(q) /\ SubSeq(q, 1, Len(p)) = p

\* open(path, 'w') succeeds: the parent is a directory and path is no directory.
CanOpenForWrite(path) ==
    /\ path # <<>>
    /\ IsDir(Dirname(path))
    /\ ~IsDir(path)

\* Text-mode write (newline=None): "\n" becomes os.linesep.
RECURSIVE WriteText(_)
WriteText(text) ==
    IF text = <<>> THEN <<>>
    ELSE (IF text[1] = "LF" /\ os_sep = "\\" THEN <<"CR", "LF">> ELSE <<text[1]>>)
         \o WriteText(Tail(text))

\* Text-mode read (newline=None): "\r\n" and "\r" become "\n".
RECURSIVE ReadText(_)
ReadText(data) ==
    IF data = <<>> THEN <<>>
    ELSE IF data[1] = "CR"
         THEN <<"LF">> \o ReadText(IF Len(data) > 1 /\ data[2] = "LF"
                                   THEN Tail(Tail(data)) ELSE Tail(data))
         ELSE <<data[1]>> \o ReadText(Tail(data))

\* The tree after open(path, 'w').write(content) at time t.
FsWrite(path, content, t) ==
    LET ct == IF path \in DOMAIN fs /\ os_sep = "\\" THEN fs[path].ctime ELSE t
        e == [kind |-> "file", data |-> WriteText(content), ctime |-> ct, mtime |-> t]
    IN [p \in DOMAIN fs \cup {path} |-> IF p = path THEN e ELSE fs[p]]


\* shutil.rmtree(path): path and everything below it is gone.
FsRemoveTree(path) ==
    [p \in {q \in DOMAIN fs : ~IsPrefixPath(path, q)} |-> fs[p]]

\* os.rename(src, dst) succeeds: src exists, dst's parent is a directory, dst
\* is not inside src, and dst is free or, on POSIX, is a file replaced by a
\* file or an empty directory replaced by a directory.
CanRename(src, dst) ==
    /\ src # <<>> /\ dst # <<>>
    /\ src \in DOMAIN fs
    /\ IsDir(Dirname(dst))
    /\ ~IsPrefixPath(src, dst)
    /\ \/ ~Exists(dst)
       \/ /\ os_sep = "/"
          /\ \/ IsFile(src) /\ IsFile(dst)
             \/ IsDir(src) /\ IsDir(dst) /\ ~(\E q \in DOMAIN fs : q # dst /\ IsPrefixPath(dst, q))

\* The tree after os.rename(src, dst) at time t: src and what is below it now
\* live at dst.  On POSIX the renamed inode's ctime is the time of the rename.
FsRename(src, dst, t) ==
    LET moved == {q \in DOMAIN fs : IsPrefixPath(src, q)}
        kept == DOMAIN fs \ (moved \cup {dst})
        to(q) == dst \o SubSeq(q, Len(src) + 1, Len(q))
        from(p) == CHOOSE q \in moved : to(q) = p
        touch(e) == IF os_sep = "/" /\ e.kind = "file" THEN [e EXCEPT !.ctime = t] ELSE e
    IN [p \in kept \cup {to(q) : q \in moved} |->
            IF p \in kept THEN fs[p]
            ELSE IF p = dst THEN touch(fs[src]) ELSE fs[from(p)]]

\* shutil.move without its _destinsrc test: a directory moved into itself is
\* copied below itself and then removed with the copy.
ShutilMoveNoSelfCheck(src, dst, t) ==
    IF CanRename(src, dst)
    THEN [ok |-> TRUE, fs |-> FsRename(src, dst, t), err |-> ""]
    ELSE IF IsDir(src) /\ src # <<>> /\ IsPrefixPath(src, dst)
    THEN [ok |-> TRUE, fs |-> FsRemoveTree(src), err |-> ""]
    ELSE [ok |-> FALSE, fs |-> fs, err |-> "no_such_file"]

\* shutil.move(src, dst) for a dst that is no directory: os.rename, and when
\* that fails the copy fallback, which raises for a directory moved into itself
\* (_destinsrc), for a source that does not exist and for a directory copied
\* onto an existing entry, and which overwrites a file with a file.  err is
\* the exception's message.
ShutilMove(src, dst, t) ==
    IF CanRename(src, dst)
    THEN [ok |-> TRUE, fs |-> FsRename(src, dst, t), err |-> ""]
    ELSE IF IsFile(src) /\ IsFile(dst) /\ src # dst
    THEN [ok |-> TRUE, fs |-> FsRename(src, dst, t), err |-> ""]
    ELSE IF IsDir(src) /\ src # <<>> /\ IsPrefixPath(src, dst)
    THEN [ok |-> FALSE, fs |-> fs, err |-> "cannot_move_directory_into_itself"]
    ELSE IF ~Exists(src)
    THEN [ok |-> FALSE, fs |-> fs, err |-> "no_such_file"]
    ELSE [ok |-> FALSE, fs |-> fs, err |-> "file_exists"]

\* os.makedirs(path): the missing directories of path, outermost first, can all
\* be made (no component is a file).
CanMakedirs(path) ==
    /\ path # <<>>
    /\ ~Exists(path)
    /\ \A n \in 1..(Len(path) - 1) : ~IsFile(SubSeq(path, 1, n))

FsMakedirs(path) ==
    [p \in DOMAIN fs \cup {SubSeq(path, 1, n) : n \in 1..Len(path)} |->
        IF p \in DOMAIN fs THEN fs[p] ELSE DirEntry]


(* The metadata map and its sidecar. *)

SummaryLen == 100

Min(a, b) == IF a < b THEN a ELSE b

\* What two datetime.now() calls in a row may return: the clock may have
\* advanced by one tick since it was last read.
Stamps(c, max) ==
    {tt \in (c..Min(c + 1, max)) \X (c..max) : tt[2] \in tt[1]..Min(tt[1] + 1, max)}

\* content[:100].replace('\n', ' ') + '...'
AutoSummary(content) ==
    LET head == SubSeq(content, 1, Min(SummaryLen, Len(content)))
    IN [i \in 1..Len(head) |-> IF head[i] = "LF" THEN " " ELSE head[i]] \o <<".", ".", ".">>

\* A record as save_note first makes it; summary <<>> stands for "not set".
NewRecord(t) ==
    [created_at |-> t, modified_at |-> t, summary |-> <<>>,
     is_pinned |-> FALSE, is_favorite |-> FALSE]

\* A save_note that stamps created_at on every call.
SaveNoteMetaRestamp(path, content, t1, t2) ==
    LET rel == RelKey(path)
        r0 == IF rel \in DOMAIN metadata
              THEN [metadata[rel] EXCEPT !.created_at = t1] ELSE NewRecord(t1)
        r1 == [r0 EXCEPT !.modified_at = t2]
        r2 == IF r1.summary = <<>> THEN [r1 EXCEPT !.summary = AutoSummary(content)] ELSE r1
    IN [k \in DOMAIN metadata \cup {rel} |-> IF k = rel THEN r2 ELSE metadata[k]]

\* A save_note that derives the summary on every call.
SaveNoteMetaResummarize(path, content, t1, t2) ==
    LET rel == RelKey(path)
        r0 == IF rel \in DOMAIN metadata THEN metadata[rel] ELSE NewRecord(t1)
        r2 == [r0 EXCEPT !.modified_at = t2, !.summary = AutoSummary(content)]
    IN [k \in DOMAIN metadata \cup {rel} |-> IF k = rel THEN r2 ELSE metadata[k]]

\* self.metadata after the three assignments of save_note (lines 412-417).
SaveNoteMeta(path, content, t1, t2) ==
    LET rel == RelKey(path)
        r0 == IF rel \in DOMAIN metadata THEN metadata[rel] ELSE NewRecord(t1)
        r1 == [r0 EXCEPT !.modified_at = t2]
        r2 == IF r1.summary = <<>> THEN [r1 EXCEPT !.summary = AutoSummary(content)] ELSE r1
    IN [k \in DOMAIN metadata \cup {rel} |-> IF k = rel THEN r2 ELSE metadata[k]]

\* json.dump(self.metadata, f): the document holds the map's keys and records.
\* kind tells what json.load makes of the file: "object" for a JSON object,
\* "array" for valid JSON that is a list, "malformed" for text that is no JSON.
Dump(m) == [exists |-> TRUE, kind |-> "object", json |-> m]

NoSidecar == [exists |-> FALSE, kind |-> "none", json |-> <<>>]

\* The map a fresh NoteManager would load from the sidecar.
SidecarMap == IF sidecar.exists /\ sidecar.kind = "object" THEN sidecar.json ELSE <<>>

\* del self.metadata[k] for every k in keys
DropKeys(m, keys) == [k \in DOMAIN m \ keys |-> m[k]]

\* The rename/move cascade (lines 469-472, 487-490): every key equal to old or
\* starting with old + os.sep is popped and re-inserted under the new prefix,
\* in the order of list(self.metadata.keys()).
RECURSIVE CascadeUnanchored(_, _, _, _)
\* A cascade whose prefix test is not anchored on a separator.
CascadeUnanchored(m, keys, old, new) ==
    IF keys = <<>> THEN m
    ELSE LET p == keys[1]
             new_p == ReplacePrefix(p, old, new)
             m1 == IF StartsWith(p, old) /\ p \in DOMAIN m
                   THEN [k \in (DOMAIN m \ {p}) \cup {new_p} |->
                            IF k = new_p THEN m[p] ELSE m[k]]
                   ELSE m
         IN CascadeUnanchored(m1, Tail(keys), old, new)

RECURSIVE Cascade(_, _, _, _)
Cascade(m, keys, old, new) ==
    IF keys = <<>> THEN m
    ELSE LET p == keys[1]
             hit == p = old \/ StartsWith(p, old \o <<os_sep>>)
             new_p == ReplacePrefix(p, old, new)
             m1 == IF hit /\ p \in DOMAIN m
                   THEN [k \in (DOMAIN m \ {p}) \cup {new_p} |->
                            IF k = new_p THEN m[p] ELSE m[k]]
                   ELSE m
         IN Cascade(m1, Tail(keys), old, new)

RECURSIVE SetToSeq(_)
\* The keys in one order.  The cascade's result does not depend on the order:
\* a re-inserted key never matches the old prefix again.
SetToSeq(S) ==
    IF S = {} THEN <<>>
    ELSE LET x == CHOOSE y \in S : TRUE IN <<x>> \o SetToSeq(S \ {x})

\* The cascade with self.metadata[new_p] = self.metadata[p]: the old key stays.
RewriteKeysKeepOld(m, old, new) ==
    LET c == Cascade(m, SetToSeq(DOMAIN m), old, new)
    IN [k \in DOMAIN m \cup DOMAIN c |-> IF k \in DOMAIN c THEN c[k] ELSE m[k]]

RewriteKeys(m, old, new) == Cascade(m, SetToSeq(DOMAIN m), old, new)

\* A purge that forgets the notes inside the folder.
FolderKeysExactOnly(m, prefix) == {p \in DOMAIN m : p = prefix}

\* The keys delete_item purges for a folder (lines 454-455).
FolderKeys(m, prefix) == {p \in DOMAIN m : StartsWith(p, prefix)}



(* Inputs. *)

MD == <<".", "md">>

Names == {<<"a">>, <<"a", "b">>}

Texts == {<<"t">>}

Summaries == {<<>>, <<"s">>}

\* A record somebody pinned, favorited or summarized by hand.
Edited(r) == r.is_pinned \/ r.is_favorite \/ r.summary \in Summaries

\* The paths the store's callers name: a top-level entry, or the entry "a"
\* inside one.
TopPaths == {<<c>> : c \in Names}
AllPaths == TopPaths \cup {<<c, <<"a">> >> : c \in Names}

\* The (parent_dir, name) pairs create_item is called with; one name is typed
\* with a separator in it, which os.path.join makes a path into a folder.
CreateArgs ==
    {<<(<<>>), c>> : c \in Names \cup {<<"a", "/", "a">> \o MD}}
        \cup {<<d, <<"a">> >> : d \in TopPaths}

\* The trees and maps the model explores.
InBounds(f, m) ==
    /\ Cardinality(DOMAIN f) <= MaxEntries
    /\ \A q \in DOMAIN f : Len(q) <= MaxDepth
    /\ Cardinality(DOMAIN m) <= MaxEntries
    /\ Cardinality({k \in DOMAIN m : Edited(m[k])}) <= MaxEdited

(* What a handler reports: the operation, the exit it took, the path it
   returned (or None), the number of metadata keys it removed or re-keyed,
   whether it raised, and for the import handlers the (title, content, error)
   tuple they unpacked. *)
Ret(op, exit, path, n, raised, res) ==
    [op |-> op, exit |-> exit, path |-> path, n |-> n, raised |-> raised, res |-> res]

\* No handler of the program catches what a store call raises: the exception
\* leaves the Qt slot and the process ends.
Crashed == ret.raised

(* NoteManager. *)

\* save_note(path, content), lines 410-420: the record is made or updated in
\* memory first; open(path, 'w') may then raise, and the write and
\* _save_metadata() are reached only if it does not.  t1 and t2 are what the
\* two datetime.now() calls return.
save_note(path, content, t1, t2) ==
    /\ metadata' = SaveNoteMeta(path, content, t1, t2)
    /\ clock' = t2
    /\ IF CanOpenForWrite(path)
       THEN /\ fs' = FsWrite(path, content, t2)
            /\ sidecar' = Dump(metadata')
       ELSE UNCHANGED <<fs, sidecar>>

SaveNote(path, content, t1, t2) ==
    /\ ~Crashed
    /\ save_note(path, content, t1, t2)
    /\ InBounds(fs', metadata')
    /\ ret' = Ret("save_note", IF CanOpenForWrite(path) THEN "ok" ELSE "raised",
                  NoPath, 0, ~CanOpenForWrite(path), <<>>)
    /\ UNCHANGED <<os_sep, sessionVars, guiVars>>

\* os.path.splitext(name)[0]
Stem(name) ==
    LET seps == {i \in 1..Len(name) : IsSep(name[i])}
        base == IF seps = {} THEN 1 ELSE (CHOOSE i \in seps : \A j \in seps : j <= i) + 1
        dots == {i \in base..Len(name) : name[i] = "."}
        d == IF dots = {} THEN 0 ELSE CHOOSE i \in dots : \A j \in dots : j <= i
    IN IF d > 0 /\ \E i \in base..(d - 1) : name[i] # "."
       THEN SubSeq(name, 1, d - 1) ELSE name

\* A create_item without its test of the target path.
TargetTakenNever(path) == FALSE

\* if os.path.exists(path): return None (line 442)
TargetTaken(path) == Exists(path)

\* create_item(parent_dir, name, is_folder, content), lines 440-448;
\* content is <<text>> or <<>> for None.
create_item(op, parent, name, is_folder, content, res, t1, t2) ==
    LET path == PathJoin(parent, name)
        \* f"# {os.path.splitext(name)[0]}\n"
        text == IF content = <<>> THEN <<"#", " ">> \o Stem(name) \o <<"LF">> ELSE content[1]
    IN IF TargetTaken(path)
       THEN /\ ret' = Ret(op, "exists", NoPath, 0, FALSE, res)
            /\ UNCHANGED <<fs, metadata, sidecar, clock>>
       ELSE IF is_folder
       THEN /\ IF CanMakedirs(path) THEN fs' = FsMakedirs(path) ELSE fs' = fs
            /\ ret' = IF CanMakedirs(path)
                      THEN Ret(op, "folder", Some(path), 0, FALSE, res)
                      ELSE Ret(op, "raised", NoPath, 0, TRUE, res)
            /\ UNCHANGED <<metadata, sidecar, clock>>
       ELSE /\ save_note(path, text, t1, t2)
            /\ ret' = IF CanOpenForWrite(path)
                      THEN Ret(op, "note", Some(path), 0, FALSE, res)
                      ELSE Ret(op, "raised", NoPath, 0, TRUE, res)

CreateItem(parent, name, is_folder, content, t1, t2) ==
    /\ ~Crashed
    /\ IsDir(parent)
    /\ create_item("create_item", parent, name, is_folder, content, <<>>, t1, t2)
    /\ InBounds(fs', metadata')
    /\ UNCHANGED <<os_sep, sessionVars, guiVars>>

\* delete_item(path), lines 450-459.  os.remove raises for a path that is no
\* file, before the map is touched.
delete_item(op, path) ==
    LET prefix == RelKey(path)
    IN IF IsDir(path)
       THEN /\ fs' = FsRemoveTree(path)
            /\ metadata' = DropKeys(metadata, FolderKeys(metadata, prefix))
            /\ sidecar' = Dump(metadata')
            /\ ret' = Ret(op, "rmtree", NoPath,
                          Cardinality(FolderKeys(metadata, prefix)), FALSE, <<>>)
       ELSE IF IsFile(path)
       THEN /\ fs' = FsRemoveTree(path)
            /\ metadata' = DropKeys(metadata, {prefix})
            /\ sidecar' = Dump(metadata')
            /\ ret' = Ret(op, "remove", NoPath,
                          Cardinality({prefix} \cap DOMAIN metadata), FALSE, <<>>)
       ELSE /\ ret' = Ret(op, "raised", NoPath, 0, TRUE, <<>>)
            /\ UNCHANGED <<fs, metadata, sidecar>>

DeleteItem(path) ==
    /\ ~Crashed
    /\ delete_item("delete_item", path)
    /\ UNCHANGED <<os_sep, clock, sessionVars, guiVars>>

\* The keys the cascade re-keys.
CascadeKeys(m, old) == {p \in DOMAIN m : p = old \/ StartsWith(p, old \o <<os_sep>>)}

\* The validation of move_item (lines 462-464): the reason, or "" to go on.
MoveRejects(source_path, dest_dir) ==
    IF ~IsDir(dest_dir) THEN "destination_must_be_folder"
    ELSE IF Exists(dest_dir \o <<Basename(source_path)>>) THEN "destination_exists"
    ELSE ""

\* move_item(source_path, dest_dir), lines 461-476.  What shutil.move raises is
\* caught and returned with the exception's message (kept in res).
move_item(op, source_path, dest_dir) ==
    LET dest_path == dest_dir \o <<Basename(source_path)>>
        mv == ShutilMove(source_path, dest_path, clock)
        why == MoveRejects(source_path, dest_dir)
    IN IF why # ""
       THEN /\ ret' = Ret(op, why, NoPath, 0, FALSE, <<>>)
            /\ UNCHANGED <<fs, metadata, sidecar>>
       ELSE IF ~mv.ok
       THEN /\ ret' = Ret(op, "move_failed", NoPath, 0, FALSE, <<(<<mv.err>>)>>)
            /\ fs' = mv.fs
            /\ UNCHANGED <<metadata, sidecar>>
       ELSE /\ fs' = mv.fs
            /\ metadata' = RewriteKeys(metadata, RelKey(source_path), RelKey(dest_path))
            /\ sidecar' = Dump(metadata')
            /\ ret' = Ret(op, "moved", Some(dest_path),
                          Cardinality(CascadeKeys(metadata, RelKey(source_path))), FALSE, <<>>)

MoveItem(source_path, dest_dir) ==
    /\ ~Crashed
    /\ move_item("move_item", source_path, dest_dir)
    /\ InBounds(fs', metadata')
    /\ UNCHANGED <<os_sep, clock, sessionVars, guiVars>>

\* A rename_item that does not test for a sibling of the new name.
RenameRejectsEmptyOnly(old_path, new_name) ==
    IF new_name = <<>> THEN "name_cannot_be_empty" ELSE ""

\* The validation of rename_item (lines 479-482): the reason, or "" to go on.
RenameRejects(old_path, new_name) ==
    IF new_name = <<>> THEN "name_cannot_be_empty"
    ELSE IF Exists(PathJoin(Dirname(old_path), new_name)) THEN "rename_exists"
    ELSE ""

\* rename_item(old_path, new_name), lines 478-494.  What os.rename raises is
\* caught and returned as a failure.
rename_item(op, old_path, new_name) ==
    LET new_path == PathJoin(Dirname(old_path), new_name)
        why == RenameRejects(old_path, new_name)
    IN IF why # ""
       THEN /\ ret' = Ret(op, why, NoPath, 0, FALSE, <<>>)
            /\ UNCHANGED <<fs, metadata, sidecar>>
       ELSE IF ~CanRename(old_path, new_path)
       THEN /\ ret' = Ret(op, "rename_failed", NoPath, 0, FALSE, <<>>)
            /\ UNCHANGED <<fs, metadata, sidecar>>
       ELSE /\ fs' = FsRename(old_path, new_path, clock)
            /\ metadata' = RewriteKeys(metadata, RelKey(old_path), RelKey(new_path))
            /\ sidecar' = Dump(metadata')
            /\ ret' = Ret(op, "renamed", Some(new_path),
                          Cardinality(CascadeKeys(metadata, RelKey(old_path))), FALSE, <<>>)

RenameItem(old_path, new_name) ==
    /\ ~Crashed
    /\ rename_item("rename_item", old_path, new_name)
    /\ InBounds(fs', metadata')
    /\ UNCHANGED <<os_sep, clock, sessionVars, guiVars>>

\* A toggle that sets the flag instead of inverting it.
SetPinnedMeta(m, rel) == [m EXCEPT ![rel].is_pinned = TRUE]

\* self.metadata[rel_path]['is_pinned'] = not ...get('is_pinned', False) (line 431)
TogglePinnedMeta(m, rel) == [m EXCEPT ![rel].is_pinned = ~m[rel].is_pinned]

\* self.metadata[rel_path]['is_favorite'] = not ...get('is_favorite', False) (line 437)
ToggleFavoriteMeta(m, rel) == [m EXCEPT ![rel].is_favorite = ~m[rel].is_favorite]

\* toggle_pinned(path), lines 428-432: nothing happens for a path without a record.
TogglePinned(path) ==
    LET rel == RelKey(path)
    IN /\ ~Crashed
       /\ IF rel \in DOMAIN metadata
          THEN /\ metadata' = TogglePinnedMeta(metadata, rel)
               /\ sidecar' = Dump(metadata')
               /\ ret' = Ret("toggle_pinned", "toggled", NoPath, 1, FALSE, <<>>)
          ELSE /\ ret' = Ret("toggle_pinned", "no_record", NoPath, 0, FALSE, <<>>)
               /\ UNCHANGED <<metadata, sidecar>>
       /\ InBounds(fs, metadata')
       /\ UNCHANGED <<os_sep, fs, clock, sessionVars, guiVars>>

\* toggle_favorite(path), lines 434-438.
ToggleFavorite(path) ==
    LET rel == RelKey(path)
    IN /\ ~Crashed
       /\ IF rel \in DOMAIN metadata
          THEN /\ metadata' = ToggleFavoriteMeta(metadata, rel)
               /\ sidecar' = Dump(metadata')
               /\ ret' = Ret("toggle_favorite", "toggled", NoPath, 1, FALSE, <<>>)
          ELSE /\ ret' = Ret("toggle_favorite", "no_record", NoPath, 0, FALSE, <<>>)
               /\ UNCHANGED <<metadata, sidecar>>
       /\ InBounds(fs, metadata')
       /\ UNCHANGED <<os_sep, fs, clock, sessionVars, guiVars>>

\* update_summary(path, summary), lines 422-426.
UpdateSummary(path, summary) ==
    LET rel == RelKey(path)
    IN /\ ~Crashed
       /\ IF rel \in DOMAIN metadata
          THEN /\ metadata' = [metadata EXCEPT ![rel].summary = summary]
               /\ sidecar' = Dump(metadata')
               /\ ret' = Ret("update_summary", "updated", NoPath, 1, FALSE, <<>>)
          ELSE /\ ret' = Ret("update_summary", "no_record", NoPath, 0, FALSE, <<>>)
               /\ UNCHANGED <<metadata, sidecar>>
       /\ InBounds(fs, metadata')
       /\ UNCHANGED <<os_sep, fs, clock, sessionVars, guiVars>>

\* get_note_content(path), lines 405-408.
GetNoteContent(path) == IF IsFile(path) THEN ReadText(fs[path].data) ELSE <<>>

\* get_item_metadata(path), lines 394-403: os.path.getctime raises for a path
\* that does not exist; otherwise the record's fields override the defaults
\* made from the file's timestamps.
GetItemMetadata(path) ==
    LET rel == RelKey(path)
    IN IF path \notin DOMAIN fs
       THEN [raised |-> TRUE, meta |-> NewRecord(0)]
       ELSE [raised |-> FALSE,
             meta |-> IF rel \in DOMAIN metadata /\ path # <<>>
                      THEN metadata[rel]
                      ELSE [created_at |-> fs[path].ctime, modified_at |-> fs[path].mtime,
                            summary |-> <<>>, is_pinned |-> FALSE, is_favorite |-> FALSE]]

(* The tree widget. *)

\* DEFAULT_NOTES_DIR as a string: one token, no code path looks inside it.
NotesDir == <<"MyNotes">>

\* The string the tree keeps for an entry: os.path.join(notes_dir, ...).
FullPath(path) == IF path = <<>> THEN NotesDir ELSE NotesDir \o <<os_sep>> \o Join(path, os_sep)

\* DraggableTreeWidget.dropEvent, lines 676-699: source is the dropped text (a
\* path), target the item under the cursor (<<>> when there is none).
DropEvent(source_path, target) ==
    LET dest_dir == IF target = <<>> THEN <<>>
                    ELSE IF IsDir(target[1]) THEN target[1] ELSE Dirname(target[1])
        cycle == IsDir(source_path) /\ StartsWith(FullPath(dest_dir), FullPath(source_path))
    IN /\ ~Crashed
       /\ target # <<>> => target[1] \in DOMAIN fs
       /\ IF cycle
          THEN /\ ret' = Ret("dropEvent", "ignored_cycle", NoPath, 0, FALSE, <<>>)
               /\ UNCHANGED <<storeVars, guiVars>>
          ELSE IF Dirname(source_path) = dest_dir
          THEN /\ ret' = Ret("dropEvent", "ignored_same_dir", NoPath, 0, FALSE, <<>>)
               /\ UNCHANGED <<storeVars, guiVars>>
          ELSE /\ move_item("dropEvent", source_path, dest_dir)
               /\ selected' = IF ret'.exit = "moved" THEN NoPath ELSE selected
               /\ UNCHANGED editor
       /\ InBounds(fs', metadata')
       /\ UNCHANGED <<os_sep, clock, sessionVars>>

(* Process start. *)

\* self.metadata is a list and not a dict.  _load_metadata returns what
\* json.load returns; no operation assigns self.metadata again, and on the list
\* [] none changes the sidecar to anything but [] (delete_item dumps the list
\* again, the others raise or return before _save_metadata): the map in memory
\* is the list [] exactly while the sidecar holds the array.
MetadataIsList == sidecar.exists /\ sidecar.kind = "array"

\* NoteManager._load_metadata, lines 381-388: the value of json.load, {} when
\* the file is absent or json.load raises JSONDecodeError.  The empty list is
\* <<>> as the empty dict is; MetadataIsList tells them apart.
LoadMetadata == IF sidecar.exists /\ sidecar.kind = "object" THEN sidecar.json ELSE <<>>

NoDialog == [open |-> FALSE, scrape_enabled |-> FALSE, status |-> "status_idle"]

\* The process ended by an exception is started again: a new NoteManager loads
\* the sidecar, a new SeleniumManager has no driver, the tree has no current
\* item.
Restart ==
    /\ Crashed
    /\ metadata' = LoadMetadata
    /\ driver' = "None"
    /\ browser' = "none"
    /\ dialog' = NoDialog
    /\ selected' = NoPath
    /\ editor' = NoEditor
    /\ ret' = Ret("init", "ok", NoPath, 0, FALSE, <<>>)
    /\ UNCHANGED <<os_sep, fs, sidecar, clock>>

\* A note put into the notes folder by hand: the store has no record of it.
LooseNote == [kind |-> "file", data |-> <<"t">>, ctime |-> 0, mtime |-> 0]

\* The first start on a POSIX host: no sidecar yet; the notes folder is empty
\* or holds the loose note ab.
Init ==
    /\ os_sep = "/"
    /\ fs \in {<<>>, [p \in {<<(<<"a", "b">>)>>} |-> LooseNote]}
    /\ metadata = <<>>
    /\ sidecar = NoSidecar
    /\ clock = 0
    /\ driver = "None"
    /\ browser = "none"
    /\ dialog = NoDialog
    /\ selected = NoPath
    /\ editor = NoEditor
    /\ ret = Ret("init", "ok", NoPath, 0, FALSE, <<>>)

Next ==
    \/ \E q \in AllPaths, c \in Texts, tt \in Stamps(clock, MaxTreeClock) :
           SaveNote(q, c, tt[1], tt[2])
    \/ \E a \in CreateArgs, f \in BOOLEAN, c \in Texts, tt \in Stamps(clock, MaxTreeClock) :
           CreateItem(a[1], a[2], f, <<c>>, tt[1], tt[2])
    \/ \E q \in AllPaths : DeleteItem(q)
    \/ \E q \in AllPaths, d \in AllPaths \cup {<<>>} : MoveItem(q, d)
    \/ \E q \in AllPaths, n \in Names \cup {<<>>} : RenameItem(q, n)
    \/ \E q \in AllPaths : TogglePinned(q)
    \/ \E q \in AllPaths, t \in {NoPath} \cup {Some(d) : d \in AllPaths} : DropEvent(q, t)
    \/ Restart

Spec == Init /\ [][Next]_vars

(* The import paths. *)

\* What a page gives the extraction: h1 is the text of its first h1 and h2 the
\* text of its first h2 of class rich_media_title (<<>> when there is none,
\* <<text>> otherwise); roots gives the text of each content area it has, of
\* div#js_content, article, main and body; imgs are the img elements of its
\* content area.  An img element is its attributes and what _download_image
\* returns for its URL: None or a file name.
NoElement == <<>>
NoRoots == <<>>
NoAttrs == <<>>

Page(h1, h2, roots, imgs) == [h1 |-> h1, h2 |-> h2, roots |-> roots, imgs |-> imgs]

\* The pages fetched by the imports: one with a heading and a body, one without
\* a content area.
Documents ==
    {Page(<<(<<"a", "?">>)>>, NoElement, [k \in {"body"} |-> <<"m">>], <<>>),
     Page(<<(<<"a">>)>>, NoElement, NoRoots, <<>>)}

\* What a URL gives requests.get: <<>> when the request raises (network error,
\* non-2xx status), else <<document>>.
Urls == {<<>>} \cup {<<d>> : d \in Documents}

\* re.sub(r'[\\/*?:"<>|]', "", title)
Sanitize(title) ==
    SelectSeq(title, LAMBDA c : c \notin {"\\", "/", "*", "?", ":", "\"", "<", ">", "|"})

UntitledArticle == <<"Untitled", " ", "Article">>

\* A title that prefers the rich_media_title heading.
TitleH2First(doc) ==
    Sanitize(IF doc.h2 # NoElement THEN doc.h2[1]
             ELSE IF doc.h1 # NoElement THEN doc.h1[1] ELSE UntitledArticle)

\* Lines 557-559: title_tag is the first h1 or else the rich_media_title h2 (a
\* tag is truthy also when it is empty); its text, or the fallback, sanitized.
Title(doc) ==
    Sanitize(IF doc.h1 # NoElement THEN doc.h1[1]
             ELSE IF doc.h2 # NoElement THEN doc.h2[1] ELSE UntitledArticle)

\* The content areas in the order line 560 looks for them.
RootKinds == <<"js_content", "article", "main", "body">>

\* A choice that looks for the article first.
ContentRootArticleFirst(doc) ==
    LET order == <<"article", "js_content", "main", "body">>
        found == {i \in 1..4 : order[i] \in DOMAIN doc.roots}
    IN IF found = {} THEN NoElement
       ELSE <<order[CHOOSE i \in found : \A j \in found : i <= j]>>

\* Line 560: soup.find('div', id='js_content') or soup.find('article') or
\* soup.find('main') or soup.body; <<>> when all four are None.
ContentRoot(doc) ==
    LET found == {i \in 1..Len(RootKinds) : RootKinds[i] \in DOMAIN doc.roots}
    IN IF found = {} THEN NoElement
       ELSE <<RootKinds[CHOOSE i \in found : \A j \in found : i <= j]>>

\* img_tag.get(name): None when the element has no such attribute.
GetAttr(attrs, name) == IF name \in DOMAIN attrs THEN attrs[name] ELSE PyNone

\* os.path.basename(self.images_dir) of the default "MyNotes/images" (line 61).
ImagesDirName == <<"images">>

\* Lines 571-573: the attributes of an image that was downloaded.
LocalAttrs(img_name) ==
    [a \in {"src", "alt"} |->
        IF a = "src" THEN ReplaceBackslash(ImagesDirName \o <<os_sep>> \o img_name)
        ELSE <<"image">>]

\* An image step that empties the element whose download failed.
RewriteImgDropFailed(img) ==
    LET data_src == GetAttr(img.attrs, "data-src")
        img_url == IF Truthy(data_src) THEN data_src ELSE GetAttr(img.attrs, "src")
    IN IF ~Truthy(img_url) THEN img.attrs
       ELSE IF Truthy(img.download) THEN LocalAttrs(img.download)
       ELSE NoAttrs

\* Lines 563-573, one turn of the loop: the attributes the element has after
\* it.  _download_image (lines 539-554) catches every exception and returns
\* None, so the turn never raises.
RewriteImg(img) ==
    LET data_src == GetAttr(img.attrs, "data-src")
        img_url == IF Truthy(data_src) THEN data_src ELSE GetAttr(img.attrs, "src")
    IN IF ~Truthy(img_url) THEN img.attrs
       ELSE IF Truthy(img.download) THEN LocalAttrs(img.download)
       ELSE img.attrs

RECURSIVE RewriteImgs(_)
\* Lines 562-573: the loop over content_div.find_all('img').
RewriteImgs(imgs) ==
    IF imgs = <<>> THEN <<>> ELSE <<RewriteImg(Head(imgs))>> \o RewriteImgs(Tail(imgs))

\* markdownify's convert_img: ![alt](src), each empty when the attribute is
\* missing.
ImgMarkdown(attrs) ==
    LET alt == GetAttr(attrs, "alt")
        src == GetAttr(attrs, "src")
    IN <<"![">> \o (IF Truthy(alt) THEN alt ELSE <<>>) \o <<"](">>
           \o (IF Truthy(src) THEN src ELSE <<>>) \o <<")">>

RECURSIVE Markdown(_, _)
\* md(str(content_div), ...), line 574: the text of the area, then its images.
Markdown(text, elems) ==
    IF elems = <<>> THEN text
    ELSE Markdown(text \o ImgMarkdown(Head(elems)), Tail(elems))

\* BaseConverter._process_html, lines 556-574: raises ValueError when the page
\* has no content area, else returns the title and the Markdown of the area;
\* root and imgs are the area chosen and the attributes its images are left with.
ProcessHtml(doc) ==
    LET content_div == ContentRoot(doc)
        elems == RewriteImgs(doc.imgs)
    IN IF content_div = NoElement
       THEN [raised |-> TRUE, title |-> Title(doc), content |-> <<>>,
             root |-> NoElement, imgs |-> <<>>]
       ELSE [raised |-> FALSE, title |-> Title(doc),
             content |-> Markdown(doc.roots[content_div[1]], elems),
             root |-> content_div, imgs |-> elems]

\* RequestsConverter.convert_from_url, lines 577-586: the tuple it returns.  On
\* an exception the message is the second element and the third is None.
ConvertFromUrl(url) ==
    IF url = <<>> \/ ProcessHtml(url[1]).raised
    THEN <<PyNone, <<"Conversion failed">>, PyNone>>
    ELSE <<ProcessHtml(url[1]).title, ProcessHtml(url[1]).content, PyNone>>

\* MainWindow.get_selected_dir, lines 1222-1227.
GetSelectedDir ==
    IF selected = NoPath THEN <<>>
    ELSE IF IsDir(selected[1]) THEN selected[1] ELSE Dirname(selected[1])

\* os.path.join(parent_dir, f"{title}.md") for the tuple's title (lines 798-800,
\* 635-637).
ImportTarget(res) == PathJoin(GetSelectedDir, Str(res[1]) \o MD)

\* The user clicks an entry of the tree: it becomes currentItem().  With the
\* editor unmodified on_note_selected (lines 1072-1081) only loads the note
\* into the editor and writes nothing.
SelectItem(path) ==
    /\ ~Crashed
    /\ ~dialog.open
    /\ ~editor.modified
    /\ path \in DOMAIN fs
    /\ selected # Some(path)
    /\ selected' = Some(path)
    /\ editor' = IF IsFile(path)
                 THEN [path |-> Some(path), text |-> GetNoteContent(path), modified |-> FALSE]
                 ELSE editor
    /\ ret' = Ret("on_note_selected", "ok", NoPath, 0, FALSE, <<>>)
    /\ UNCHANGED <<os_sep, storeVars, clock, sessionVars>>

\* What the handlers do with the tuple (lines 793-806, 628-643): "if error"
\* looks at the third element; otherwise the note is created and, when
\* create_item returned a path, the tree is loaded again.
CreateFromResult(op, res, t1, t2) ==
    IF Truthy(res[3])
    THEN /\ ret' = Ret(op, "reported", NoPath, 0, FALSE, res)
         /\ UNCHANGED <<storeVars, clock, guiVars>>
    ELSE /\ create_item(op, GetSelectedDir, Str(res[1]) \o MD, FALSE, <<res[2]>>, res, t1, t2)
         /\ selected' = IF ret'.path # NoPath THEN NoPath ELSE selected
         /\ UNCHANGED editor

\* MainWindow.import_from_url(use_selenium=False), lines 789-806, for a URL
\* the user entered.
ImportFromUrl(url, t1, t2) ==
    /\ ~Crashed
    /\ ~dialog.open
    /\ CreateFromResult("import_from_url", ConvertFromUrl(url), t1, t2)
    /\ InBounds(fs', metadata')
    /\ UNCHANGED <<os_sep, sessionVars>>

\* AdvancedImportDialog.update_ui, lines 610-618.
UpdateUi(d) ==
    IF d = "driver"
    THEN [open |-> TRUE, scrape_enabled |-> TRUE, status |-> "status_running"]
    ELSE [open |-> TRUE, scrape_enabled |-> FALSE, status |-> "status_idle"]

\* import_from_url(use_selenium=True), lines 807-809: the dialog is made
\* (update_ui) and shown modally.
OpenAdvancedImport ==
    /\ ~Crashed
    /\ ~dialog.open
    /\ dialog' = UpdateUi(driver)
    /\ ret' = Ret("advanced_import", "opened", NoPath, 0, FALSE, <<>>)
    /\ UNCHANGED <<os_sep, storeVars, clock, driver, browser, guiVars>>

\* The user closes the dialog.
CloseDialog ==
    /\ ~Crashed
    /\ dialog.open
    /\ dialog' = NoDialog
    /\ ret' = Ret("advanced_import", "closed", NoPath, 0, FALSE, <<>>)
    /\ UNCHANGED <<os_sep, storeVars, clock, driver, browser, guiVars>>

\* The user closes the window of the dedicated browser: the handle is dead.
CloseBrowserWindow ==
    /\ ~Crashed
    /\ browser = "alive"
    /\ browser' = "closed"
    /\ UNCHANGED <<os_sep, storeVars, clock, driver, dialog, guiVars, ret>>

LaunchOutcomes == {"launched", "no_driver", "launch_error"}

\* A launch that leaves the handle it found when no browser was started.
DriverAfterLaunchKeepsOld(outcome) == IF outcome = "launched" THEN "driver" ELSE driver

\* self.driver after a launch that goes on to start a browser: a dead handle
\* was set to None (line 258), the handle was None otherwise; it is assigned
\* only when webdriver.Edge/Chrome returns (lines 320-323).
DriverAfterLaunch(outcome) == IF outcome = "launched" THEN "driver" ELSE "None"

\* AdvancedImportDialog.launch_browser (lines 620-624) around
\* SeleniumManager.launch_or_get_browser (lines 250-337).  outcome is what
\* getting a driver and starting the browser come to; res holds the lines the
\* method prints about the old handle.
LaunchBrowser(outcome) ==
    LET running == driver = "driver" /\ browser = "alive"
        dead == driver = "driver" /\ browser # "alive"
    IN /\ ~Crashed
       /\ dialog.open
       /\ IF running
          THEN /\ ret' = Ret("launch_browser", "already_running", NoPath, 0, FALSE, <<>>)
               /\ UNCHANGED <<driver, browser>>
          ELSE /\ driver' = DriverAfterLaunch(outcome)
               /\ browser' = IF outcome = "launched" THEN "alive" ELSE "none"
               /\ ret' = Ret("launch_browser", outcome, NoPath, 0, FALSE,
                             IF dead THEN <<(<<"old_instance_closed">>)>> ELSE <<>>)
       /\ dialog' = UpdateUi(driver')
       /\ UNCHANGED <<os_sep, storeVars, clock, guiVars>>

\* A scrape that keeps the dead handle.
DriverAfterLostSessionKept == "driver"

\* self.driver = None (line 349)
DriverAfterLostSession == "None"

\* A scrape that gives up the handle on every failure.
ScrapeCurrentPageDropsOnAnyFailure(doc) ==
    IF driver # "driver"
    THEN [res |-> <<PyNone, <<"browser_not_connected">>, PyNone>>, driver |-> driver]
    ELSE IF browser # "alive"
    THEN [res |-> <<PyNone, <<"scrape_error_browser_closed">>, PyNone>>, driver |-> "None"]
    ELSE IF ProcessHtml(doc).raised
    THEN [res |-> <<PyNone, <<"scrape_failed">>, PyNone>>, driver |-> "None"]
    ELSE [res |-> <<ProcessHtml(doc).title, ProcessHtml(doc).content, PyNone>>,
          driver |-> driver]

\* SeleniumManager.scrape_current_page, lines 339-352, on the page the browser
\* shows: the tuple it returns and the handle it leaves.
ScrapeCurrentPage(doc) ==
    IF driver # "driver"
    THEN [res |-> <<PyNone, <<"browser_not_connected">>, PyNone>>, driver |-> driver]
    ELSE IF browser # "alive"
    THEN [res |-> <<PyNone, <<"scrape_error_browser_closed">>, PyNone>>,
          driver |-> DriverAfterLostSession]
    ELSE IF ProcessHtml(doc).raised
    THEN [res |-> <<PyNone, <<"scrape_failed">>, PyNone>>, driver |-> driver]
    ELSE [res |-> <<ProcessHtml(doc).title, ProcessHtml(doc).content, PyNone>>,
          driver |-> driver]

\* AdvancedImportDialog.scrape_page, lines 626-643: the button is enabled as
\* update_ui last left it; the dialog is accepted after a note was created.
ScrapePage(doc, t1, t2) ==
    LET sc == ScrapeCurrentPage(doc)
    IN /\ ~Crashed
       /\ dialog.open
       /\ dialog.scrape_enabled
       /\ driver' = sc.driver
       /\ browser' = IF sc.driver = "None" THEN "none" ELSE browser
       /\ CreateFromResult("scrape_page", sc.res, t1, t2)
       /\ dialog' = IF Truthy(sc.res[3])
                    THEN (IF sc.driver # "driver" THEN UpdateUi(sc.driver) ELSE dialog)
                    ELSE IF ret'.path # NoPath THEN NoDialog ELSE dialog
       /\ InBounds(fs', metadata')
       /\ UNCHANGED <<os_sep>>

\* show_tree_context_menu, "new note" (lines 1249-1251): name + ".md", the
\* default content, then load_notes_tree.
NewNote(name, t1, t2) ==
    /\ ~Crashed
    /\ ~dialog.open
    /\ create_item("new_note", GetSelectedDir, name \o MD, FALSE, <<>>, <<>>, t1, t2)
    /\ selected' = NoPath
    /\ UNCHANGED editor
    /\ InBounds(fs', metadata')
    /\ UNCHANGED <<os_sep, sessionVars>>

\* show_tree_context_menu, "new folder" (lines 1252-1254).
NewFolder(name) ==
    /\ ~Crashed
    /\ ~dialog.open
    /\ create_item("new_folder", GetSelectedDir, name, TRUE, <<>>, <<>>, clock, clock)
    /\ selected' = NoPath
    /\ UNCHANGED editor
    /\ InBounds(fs', metadata')
    /\ UNCHANGED <<os_sep, sessionVars>>

NoteNames == {<<"a">>}
FolderNames == {<<"a">>, <<"a">> \o MD}

\* The first start on a POSIX host, with an empty notes folder.
InitImport ==
    /\ os_sep = "/"
    /\ fs = <<>>
    /\ metadata = <<>>
    /\ sidecar = NoSidecar
    /\ clock = 0
    /\ driver = "None"
    /\ browser = "none"
    /\ dialog = NoDialog
    /\ selected = NoPath
    /\ editor = NoEditor
    /\ ret = Ret("init", "ok", NoPath, 0, FALSE, <<>>)

NextImport ==
    \/ \E q \in DOMAIN fs : SelectItem(q)
    \/ \E u \in Urls, tt \in Stamps(clock, MaxClock) : ImportFromUrl(u, tt[1], tt[2])
    \/ OpenAdvancedImport
    \/ CloseDialog
    \/ CloseBrowserWindow
    \/ \E o \in LaunchOutcomes : LaunchBrowser(o)
    \/ \E d \in Documents, tt \in Stamps(clock, MaxClock) : ScrapePage(d, tt[1], tt[2])
    \/ \E n \in NoteNames, tt \in Stamps(clock, MaxClock) : NewNote(n, tt[1], tt[2])
    \/ \E n \in FolderNames : NewFolder(n)

SpecImport == InitImport /\ [][NextImport]_vars

(* Properties. *)

\* The fetch of url fails: the request raises, or the page has no content area.
FetchFails(url) == url = <<>> \/ url[1].roots = NoRoots

\* C1: whenever convert_from_url hits an exception, import_from_url reports
\* the failure and creates no note file and no metadata record: the tree and
\* the metadata map are the same as before the import.
C1_FailedFetchCreatesNothing ==
    [][\A u \in Urls, tt \in Stamps(clock, MaxClock) :
           (ImportFromUrl(u, tt[1], tt[2]) /\ FetchFails(u))
               => UNCHANGED <<fs, metadata>>]_vars

\* The scrape of the page fails: no handle, the window closed, or no content area.
ScrapeFails(doc) == driver # "driver" \/ browser # "alive" \/ doc.roots = NoRoots

\* C2: whenever scrape_current_page fails, scrape_page reports the failure
\* and does not call create_item; no note file and no metadata record is
\* created.
C2_FailedScrapeCreatesNothing ==
    [][\A d \in Documents, tt \in Stamps(clock, MaxClock) :
           (ScrapePage(d, tt[1], tt[2]) /\ ScrapeFails(d))
               => (ret'.exit = "reported" /\ UNCHANGED <<fs, metadata>>)]_vars

\* C3: a scrape that finds the browser session gone sets the handle to None;
\* a launch made while no live browser is held (the handle is None, or the
\* launch itself finds the old handle dead) goes on to start a browser: it
\* never answers "already running", it leaves the handle on a live browser
\* when the start succeeds and on None when it does not.
C3_LostSessionStartsFresh ==
    [][/\ \A d \in Documents, tt \in Stamps(clock, MaxClock) :
              (ScrapePage(d, tt[1], tt[2]) /\ driver = "driver" /\ browser = "closed")
                  => (driver' = "None"
                      /\ ret'.res[2] = <<"scrape_error_browser_closed">>)
       /\ \A o \in LaunchOutcomes :
              (LaunchBrowser(o) /\ (driver = "None" \/ browser = "closed"))
                  => /\ ret'.exit = o
                     /\ (o = "launched") => (driver' = "driver" /\ browser' = "alive")
                     /\ (o # "launched") => (driver' = "None")
                     /\ (driver = "driver")
                            => (ret'.res = <<(<<"old_instance_closed">>)>>)]_vars

\* C3 witness: a scrape has just found the session gone and dropped the handle.
C3_Witness ==
    /\ ret.op = "scrape_page"
    /\ ret.res # <<>>
    /\ ret.res[2] = <<"scrape_error_browser_closed">>
    /\ driver = "None"

\* C4: create_item on a target path that exists returns None and leaves the
\* tree, the metadata map and the sidecar as they were; so an import (direct
\* or from the session) whose "<title>.md" exists in the destination folder
\* overwrites nothing and creates nothing, and so do "new note" and "new
\* folder".
C4_CreateOnExistingPath ==
    [][/\ \A u \in Urls, tt \in Stamps(clock, MaxClock) :
              (ImportFromUrl(u, tt[1], tt[2]) /\ Exists(ImportTarget(ConvertFromUrl(u))))
                  => (ret'.path = NoPath /\ UNCHANGED storeVars)
       /\ \A d \in Documents, tt \in Stamps(clock, MaxClock) :
              (ScrapePage(d, tt[1], tt[2]) /\ Exists(ImportTarget(ScrapeCurrentPage(d).res)))
                  => (ret'.path = NoPath /\ UNCHANGED storeVars)
       /\ \A n \in NoteNames, tt \in Stamps(clock, MaxClock) :
              (NewNote(n, tt[1], tt[2]) /\ Exists(PathJoin(GetSelectedDir, n \o MD)))
                  => (ret'.path = NoPath /\ UNCHANGED storeVars)
       /\ \A n \in FolderNames :
              (NewFolder(n) /\ Exists(PathJoin(GetSelectedDir, n)))
                  => (ret'.path = NoPath /\ UNCHANGED storeVars)]_vars

\* C4 witness: a page was extracted, and the note named after its title was
\* already there (a note with a record of its own).
C4_Witness ==
    /\ ret.op \in {"import_from_url", "scrape_page"}
    /\ ret.exit = "exists"
    /\ ret.res[1] = <<"a">>
    /\ IsFile(<<(<<"a">> \o MD)>>)
    /\ RelKey(<<(<<"a">> \o MD)>>) \in DOMAIN metadata

\* C5: after a successful rename_item of a note that has a record, the map
\* holds under the new relative path exactly the record it held under the old
\* one, and no record under the old one.
C5_RenameMovesRecord ==
    [][\A q \in AllPaths, n \in Names :
           (/\ RenameItem(q, n)
            /\ ret'.exit = "renamed"
            /\ IsFile(q)
            /\ RelKey(q) \in DOMAIN metadata)
               => LET new == RelKey(PathJoin(Dirname(q), n))
                  IN /\ new \in DOMAIN metadata'
                     /\ metadata'[new] = metadata[RelKey(q)]
                     /\ RelKey(q) \notin DOMAIN metadata']_vars

\* C5 witness: a note with a record has just been renamed.
C5_Witness ==
    /\ ret.op = "rename_item"
    /\ ret.exit = "renamed"
    /\ ret.n >= 1
    /\ IsFile(ret.path[1])
    /\ RelKey(ret.path[1]) \in DOMAIN metadata

\* C6: for every path without a record get_item_metadata returns the defaults
\* and never raises, also for the path of an entry that delete_item has just
\* removed.
C6_DefaultsNeverRaise ==
    [][\A q \in AllPaths :
           (DeleteItem(q) /\ ~ret'.raised)
               => (RelKey(q) \notin DOMAIN metadata' /\ ~(GetItemMetadata(q).raised)')]_vars

\* C7: after delete_item on a folder the map has no key equal to the folder's
\* relative path or starting with it and "/", and the sidecar holds the same
\* map.
C7_FolderDeletePurges ==
    [][\A q \in AllPaths :
           (DeleteItem(q) /\ IsDir(q))
               => /\ \A k \in DOMAIN metadata' :
                         k # RelKey(q) /\ ~StartsWith(k, RelKey(q) \o <<"/">>)
                  /\ SidecarMap' = metadata']_vars

\* C7 witness: a folder has just been deleted and records went with it.
C7_Witness ==
    /\ ret.op = "delete_item"
    /\ ret.exit = "rmtree"
    /\ ret.n >= 1

\* C8: a move of a folder into itself or into one of its descendants, by
\* move_item or by a drop, changes neither the tree nor the map nor the
\* sidecar, and returns no path.
C8_NoMoveIntoItself ==
    [][\A q \in AllPaths, d \in AllPaths :
           (/\ IsDir(q)
            /\ IsPrefixPath(q, d)
            /\ MoveItem(q, d) \/ DropEvent(q, Some(d)))
               => (ret'.path = NoPath /\ UNCHANGED storeVars)]_vars

\* C8 witness: move_item was asked to move a folder into itself and shutil.move
\* refused.
C8_Witness ==
    /\ ret.op = "move_item"
    /\ ret.exit = "move_failed"
    /\ ret.res = <<(<<"cannot_move_directory_into_itself">>)>>

\* C9: after every store operation that changes the in-memory map, whether it
\* returns or raises, the sidecar holds the in-memory map.
C9_WriteThrough ==
    [][(~Crashed /\ metadata' # metadata) => SidecarMap' = metadata']_vars

\* C10: rename_item with an empty or an existing name, and move_item with a
\* destination that is no directory or that holds an entry of the same name,
\* return (None, reason) and change neither the tree nor the map nor the
\* sidecar.
C10_ValidationFailureChangesNothing ==
    [][/\ \A q \in AllPaths, n \in Names \cup {<<>>} :
              (RenameItem(q, n) /\ (n = <<>> \/ Exists(PathJoin(Dirname(q), n))))
                  => /\ ret'.path = NoPath
                     /\ ret'.exit \in {"name_cannot_be_empty", "rename_exists"}
                     /\ UNCHANGED storeVars
       /\ \A q \in AllPaths, d \in AllPaths \cup {<<>>} :
              (MoveItem(q, d) /\ (~IsDir(d) \/ Exists(d \o <<Basename(q)>>)))
                  => /\ ret'.path = NoPath
                     /\ ret'.exit \in {"destination_must_be_folder", "destination_exists"}
                     /\ UNCHANGED storeVars]_vars

\* C10 witness: rename_item has just refused a name that a sibling holds.
C10_Witness ==
    /\ ret.op = "rename_item"
    /\ ret.exit = "rename_exists"

(* Moves and renames among three names, on either host. *)

MoveNames == {<<"a">>, <<"a", "b">>, <<"c">>}

\* The paths named: a top-level entry, or the entry "a" inside one.
MovePaths == {<<c>> : c \in MoveNames} \cup {<<c, <<"a">> >> : c \in MoveNames}

\* The first start on a host whose os.sep is sep, with an empty notes folder.
InitHost(sep) ==
    /\ os_sep = sep
    /\ fs = <<>>
    /\ metadata = <<>>
    /\ sidecar = NoSidecar
    /\ clock = 0
    /\ driver = "None"
    /\ browser = "none"
    /\ dialog = NoDialog
    /\ selected = NoPath
    /\ editor = NoEditor
    /\ ret = Ret("init", "ok", NoPath, 0, FALSE, <<>>)

InitMove == InitHost("/")

InitWindows == InitHost("\\")

NextMove ==
    \/ \E q \in MovePaths, f \in BOOLEAN, c \in Texts :
           CreateItem(Dirname(q), Basename(q), f, <<c>>, clock, clock)
    \/ \E q \in MovePaths, d \in MovePaths \cup {<<>>} : MoveItem(q, d)
    \/ \E q \in MovePaths, n \in MoveNames : RenameItem(q, n)
    \/ \E q \in MovePaths : DeleteItem(q)
    \/ Restart

SpecMove == InitMove /\ [][NextMove]_vars

\* On the backslash host: folders and notes of two names, created, moved and
\* renamed.
WinNames == {<<"a">>, <<"c">>}

WinPaths == {<<c>> : c \in WinNames} \cup {<<c, <<"a">> >> : c \in WinNames}

NextWindows ==
    \/ \E q \in WinPaths, f \in BOOLEAN, c \in Texts :
           CreateItem(Dirname(q), Basename(q), f, <<c>>, clock, clock)
    \/ \E q \in WinPaths, d \in WinPaths \cup {<<>>} : MoveItem(q, d)
    \/ \E q \in WinPaths, n \in WinNames : RenameItem(q, n)

SpecWindows == InitWindows /\ [][NextWindows]_vars

C12_CascadeOnEveryHost ==
    [][/\ \A k \in DOMAIN metadata' : \A i \in 1..Len(k) : k[i] # "\\"
       /\ \A q \in WinPaths :
              (/\ IsDir(q)
               /\ \/ \E n \in WinNames : RenameItem(q, n) /\ ret'.exit = "renamed"
                  \/ \E d \in WinPaths \cup {<<>>} : MoveItem(q, d) /\ ret'.exit = "moved")
                  => \A k \in DOMAIN metadata' : ~StartsWith(k, RelKey(q) \o <<"/">>)]_vars

(* Saves, summaries and flags of two notes, with a running clock. *)

MetaPaths == {<<(<<"a">>)>>, <<(<<"c">>)>>}

\* The texts saved: one with a line feed, one with a carriage return.
MetaTexts == {<<"t", "LF">>, <<"CR", "t">>}

InitMeta == InitHost("/") \/ InitHost("\\")

NextMeta ==
    \/ \E q \in MetaPaths, c \in MetaTexts, tt \in Stamps(clock, MaxClock) :
           SaveNote(q, c, tt[1], tt[2])
    \/ \E q \in MetaPaths, m \in Summaries : UpdateSummary(q, m)
    \/ \E q \in MetaPaths : TogglePinned(q)
    \/ \E q \in MetaPaths : ToggleFavorite(q)

SpecMeta == InitMeta /\ [][NextMeta]_vars

\* C13: a save_note on a path that has a record leaves created_at as the
\* first save set it and sets modified_at no earlier than it was; after every
\* save modified_at is no earlier than created_at, and the first save stamps
\* created_at with the time of the call.
C13_SaveKeepsCreatedAt ==
    [][\A q \in MetaPaths, c \in MetaTexts, tt \in Stamps(clock, MaxClock) :
           SaveNote(q, c, tt[1], tt[2])
               => LET k == RelKey(q)
                  IN /\ k \in DOMAIN metadata'
                     /\ metadata'[k].modified_at >= metadata'[k].created_at
                     /\ IF k \in DOMAIN metadata
                        THEN /\ metadata'[k].created_at = metadata[k].created_at
                             /\ metadata'[k].modified_at >= metadata[k].modified_at
                        ELSE metadata'[k].created_at = tt[1]]_vars

\* C13 witness: a note saved again at a later time.
C13_Witness ==
    /\ ret.op = "save_note"
    /\ \E k \in DOMAIN metadata :
           metadata[k].created_at = 0 /\ metadata[k].modified_at = 1 /\ clock = 1

\* C14 as stated: a save_note on a path that has a record never changes the
\* record's summary, whatever update_summary set it to.
C14_SaveNeverChangesSummary ==
    [][\A q \in MetaPaths, c \in MetaTexts, tt \in Stamps(clock, MaxClock) :
           (SaveNote(q, c, tt[1], tt[2]) /\ RelKey(q) \in DOMAIN metadata)
               => metadata'[RelKey(q)].summary = metadata[RelKey(q)].summary]_vars

\* C14 amended: the first save of a path derives the summary from the content;
\* update_summary(path, s) sets it to s; a later save leaves a summary that is
\* not empty as it is, and derives the summary again when it is empty.
C14_SaveKeepsNonEmptySummary ==
    [][/\ \A q \in MetaPaths, c \in MetaTexts, tt \in Stamps(clock, MaxClock) :
              SaveNote(q, c, tt[1], tt[2])
                  => LET k == RelKey(q)
                     IN metadata'[k].summary =
                            IF k \in DOMAIN metadata /\ metadata[k].summary # <<>>
                            THEN metadata[k].summary ELSE AutoSummary(c)
       /\ \A q \in MetaPaths, m \in Summaries :
              (UpdateSummary(q, m) /\ RelKey(q) \in DOMAIN metadata)
                  => metadata'[RelKey(q)].summary = m]_vars

\* C14 witness: a note whose summary was set by hand has just been saved again.
C14_Witness ==
    /\ ret.op = "save_note"
    /\ \E k \in DOMAIN metadata : metadata[k].summary = <<"s">>

\* C15: save_note(p, text) followed at once by get_note_content(p) returns text.
C15_SaveThenReadRoundTrip ==
    [][\A q \in MetaPaths, c \in MetaTexts, tt \in Stamps(clock, MaxClock) :
           (SaveNote(q, c, tt[1], tt[2]) /\ ~ret'.raised)
               => (GetNoteContent(q))' = c]_vars

\* C16: toggle_pinned and toggle_favorite change nothing for a path without a
\* record; for a path with a record they invert that one flag, leave the other
\* fields and the other records as they are and write the sidecar; a second
\* toggle of the same flag gives back the original map.
C16_TogglesInvertOneFlag ==
    [][\A q \in MetaPaths :
           LET k == RelKey(q)
           IN /\ (TogglePinned(q) /\ k \notin DOMAIN metadata) => UNCHANGED storeVars
              /\ (ToggleFavorite(q) /\ k \notin DOMAIN metadata) => UNCHANGED storeVars
              /\ (TogglePinned(q) /\ k \in DOMAIN metadata)
                     => /\ metadata' = [metadata EXCEPT ![k].is_pinned = ~metadata[k].is_pinned]
                        /\ SidecarMap' = metadata'
                        /\ fs' = fs
                        /\ TogglePinnedMeta(metadata', k) = metadata
              /\ (ToggleFavorite(q) /\ k \in DOMAIN metadata)
                     => /\ metadata' =
                               [metadata EXCEPT ![k].is_favorite = ~metadata[k].is_favorite]
                        /\ SidecarMap' = metadata'
                        /\ fs' = fs
                        /\ ToggleFavoriteMeta(metadata', k) = metadata]_vars

\* C16 witness: a pinned note has just been unpinned while another note has a
\* record.
C16_Witness ==
    /\ ret.op = "toggle_pinned"
    /\ ret.exit = "toggled"
    /\ Cardinality(DOMAIN metadata) = 2
    /\ \A k \in DOMAIN metadata : ~metadata[k].is_pinned

(* The notes tree: MainWindow._populate_tree. *)

\* The characters of the names listed, in code point order.
CharOrd == [c \in {".", "a", "b", "d", "e", "md"} |->
               CASE c = "." -> 1 [] c = "a" -> 2 [] c = "b" -> 3 [] c = "d" -> 4 [] c = "e" -> 5
                 [] c = "md" -> 6]

\* s < t for two strings of Python.
LexLess(s, t) ==
    \E i \in 1..(Len(s) + 1) :
        /\ i <= Len(t)
        /\ \A j \in 1..(i - 1) : s[j] = t[j]
        /\ i = Len(s) + 1 \/ CharOrd[s[i]] < CharOrd[t[i]]

\* sort_map (lines 1047-1049): the key and the reverse flag of each sort mode.
SortMap ==
    [sort_mod_desc |-> <<"modified_at", TRUE>>, sort_mod_asc |-> <<"modified_at", FALSE>>,
     sort_cre_desc |-> <<"created_at", TRUE>>, sort_cre_asc |-> <<"created_at", FALSE>>,
     sort_name_asc |-> <<"name", FALSE>>, sort_name_desc |-> <<"name", TRUE>>]

SortKeys == DOMAIN SortMap

\* key(a) < key(b) for the key function of one list.sort call; False < True.
KeyLess(a, b, key) ==
    CASE key = "name" -> LexLess(a.name, b.name)
      [] key = "is_pinned" -> ~a.is_pinned /\ b.is_pinned
      [] key = "modified_at" -> a.modified_at < b.modified_at
      [] key = "created_at" -> a.created_at < b.created_at

RECURSIVE SortInfos(_, _, _)
\* list.sort(key=..., reverse=...): a stable sort, elements with equal keys keep
\* their order also when reverse is set.  Each element is put before the first
\* one it must precede.
SortInfos(infos, key, reverse) ==
    IF infos = <<>> THEN <<>>
    ELSE LET n == Len(infos)
             x == infos[n]
             done == SortInfos(SubSeq(infos, 1, n - 1), key, reverse)
             first(y) == IF reverse THEN KeyLess(y, x, key) ELSE KeyLess(x, y, key)
             later == {i \in 1..Len(done) : first(done[i])}
             pos == IF later = {} THEN Len(done) + 1
                    ELSE CHOOSE i \in later : \A j \in later : i <= j
         IN SubSeq(done, 1, pos - 1) \o <<x>> \o SubSeq(done, pos, Len(done))

\* A listing that sorts by the pin flag first and by the selected key last.
NotesOrderPinLast(infos, sort_key) ==
    SortInfos(SortInfos(infos, "is_pinned", TRUE), SortMap[sort_key][1], SortMap[sort_key][2])

\* Lines 1050-1055: sort by the selected key, then by is_pinned, reverse.
NotesOrder(infos, sort_key) ==
    SortInfos(SortInfos(infos, SortMap[sort_key][1], SortMap[sort_key][2]), "is_pinned", TRUE)

\* Lines 1019-1025: the info of a file is its metadata with its name.
FileInfo(dir, name) ==
    LET meta == GetItemMetadata(dir \o <<name>>).meta
    IN [name |-> name, is_pinned |-> meta.is_pinned,
        modified_at |-> meta.modified_at, created_at |-> meta.created_at]

RECURSIVE FileInfos(_, _)
\* Lines 1018-1024: the infos of the files, in the order of the files.
FileInfos(dir, files) ==
    IF files = <<>> THEN <<>>
    ELSE <<FileInfo(dir, Head(files))>> \o FileInfos(dir, Tail(files))

RECURSIVE Named(_)
Named(names) ==
    IF names = <<>> THEN <<>> ELSE <<[name |-> Head(names)]>> \o Named(Tail(names))

\* i.startswith('.') (lines 1009-1011): the entries the tree leaves out.  The
\* sidecar metadata.json, left out too, is no entry of fs.
Hidden(name) == StartsWith(name, <<".">>)

\* _populate_tree(parent_item, path), lines 1007-1070, with no search text and
\* the "all notes" filter: items is what os.listdir(path) returns, in its
\* order.  The result is the items added to the tree, in the order added.
PopulateTree(dir, items, sort_key) ==
    LET folders == SelectSeq(items, LAMBDA i : IsDir(dir \o <<i>>) /\ ~Hidden(i))
        files == SelectSeq(items, LAMBDA i : IsFile(dir \o <<i>>) /\ ~Hidden(i))
        notes == NotesOrder(FileInfos(dir, files), sort_key)
        \* sorted(folders): the folder names in ascending order.
        sorted == SortInfos(Named(folders), "name", FALSE)
    IN /\ ~Crashed
       /\ {items[i] : i \in 1..Len(items)} = {q[Len(q)] : q \in {r \in DOMAIN fs : Dirname(r) = dir}}
       /\ Len(items) = Cardinality({r \in DOMAIN fs : Dirname(r) = dir})
       /\ ret' = Ret("populate_tree", sort_key, NoPath, 0, FALSE,
                     [i \in 1..Len(folders) |-> <<"folder", sorted[i].name>>]
                         \o [i \in 1..Len(notes) |-> <<"note", notes[i].name>>])
       /\ UNCHANGED <<os_sep, storeVars, clock, sessionVars, guiVars>>

\* The notes and the folders listed.
SortNotes == {<<"a">> \o MD, <<"a", "b">> \o MD, <<"b">> \o MD}
SortFolders == {<<"d">>, <<"e">>}

\* The records the notes may have: pinned or not, saved once or twice.
SortRecords ==
    {[created_at |-> c, modified_at |-> m, summary |-> <<"t", ".", ".", ".">>,
      is_pinned |-> p, is_favorite |-> FALSE] :
        c \in 0..MaxClock, m \in 0..MaxClock, p \in BOOLEAN}

\* A notes folder with three saved notes and two folders.
InitSort ==
    /\ os_sep = "/"
    /\ metadata \in [SortNotes -> {r \in SortRecords : r.created_at <= r.modified_at}]
    /\ fs = [q \in {<<n>> : n \in SortNotes \cup SortFolders} |->
                IF q[1] \in SortFolders THEN DirEntry
                ELSE [kind |-> "file", data |-> <<"t">>,
                      ctime |-> metadata[q[1]].created_at,
                      mtime |-> metadata[q[1]].modified_at]]
    /\ sidecar = Dump(metadata)
    /\ clock = MaxClock
    /\ driver = "None"
    /\ browser = "none"
    /\ dialog = NoDialog
    /\ selected = NoPath
    /\ editor = NoEditor
    /\ ret = Ret("init", "ok", NoPath, 0, FALSE, <<>>)

\* The orders of a set of names.
Orders(names) ==
    {s \in [1..Cardinality(names) -> names] : \A i, j \in DOMAIN s : i # j => s[i] # s[j]}

\* The orders os.listdir may return the entries in: every order of the notes
\* and every order of the folders, either kind first.  The code separates the
\* two kinds before it orders either (lines 1009-1010).
NextSort ==
    \E n \in Orders(SortNotes), f \in Orders(SortFolders), k \in SortKeys :
        \E items \in {n \o f, f \o n} :
            PopulateTree(<<>>, items, k)

SpecSort == InitSort /\ [][NextSort]_vars

\* C17: in the listing _populate_tree builds, for each of the six sort modes,
\* every pinned note comes before every unpinned one, and two notes of the same
\* group are in the order of the selected key and direction; the folders come
\* apart from the notes, in ascending order of their names.
C17_PinnedFirstThenKey ==
    ret.op = "populate_tree" =>
        LET listed == ret.res
            rec(i) == metadata[RelKey(<<listed[i][2]>>)]
            key == SortMap[ret.exit][1]
            reverse == SortMap[ret.exit][2]
            less(i, j) == CASE key = "name" -> LexLess(listed[i][2], listed[j][2])
                            [] key = "modified_at" -> rec(i).modified_at < rec(j).modified_at
                            [] key = "created_at" -> rec(i).created_at < rec(j).created_at
        IN /\ {listed[i] : i \in 1..Len(listed)}
                  = {<<IF IsDir(q) THEN "folder" ELSE "note", q[1]>> : q \in DOMAIN fs}
           /\ Len(listed) = Cardinality(DOMAIN fs)
           /\ \A i, j \in 1..Len(listed) :
                  i < j =>
                      /\ listed[j][1] = "folder" => listed[i][1] = "folder"
                      /\ listed[j][1] = "folder" => LexLess(listed[i][2], listed[j][2])
                      /\ listed[i][1] = "note" =>
                             /\ rec(j).is_pinned => rec(i).is_pinned
                             /\ (rec(i).is_pinned = rec(j).is_pinned)
                                    => IF reverse THEN ~less(i, j) ELSE ~less(j, i)

\* C17 witness: a listing by modification time, newest first, of two folders
\* and then a pinned older note before an unpinned newer one and an unpinned
\* older one.
C17_Witness ==
    /\ ret.op = "populate_tree"
    /\ ret.exit = "sort_mod_desc"
    /\ LET rec(i) == metadata[ret.res[i][2]]
       IN /\ ret.res[1][1] = "folder" /\ ret.res[2][1] = "folder" /\ ret.res[3][1] = "note"
          /\ rec(3).is_pinned /\ rec(3).modified_at = 0
          /\ ~rec(4).is_pinned /\ rec(4).modified_at = 1
          /\ ~rec(5).is_pinned /\ rec(5).modified_at = 0

(* The extraction on its own: BaseConverter._process_html. *)

MaxImgs == 2

\* The file name _download_image returns: a time stamp and the format (line 545).
ImgNames == {<<"f", ".", "jpg">>}

\* The img elements tried: a lazy-loaded image and an image with a src and a
\* class, each downloaded or not, and an element without a source.
ImgElems ==
    {[attrs |-> a, download |-> d] :
        a \in {[a \in {"data-src"} |-> <<"u">>],
               [a \in {"src", "class"} |-> IF a = "src" THEN <<"u">> ELSE <<"c">>]},
        d \in {PyNone} \cup ImgNames}
        \cup {[attrs |-> [a \in {"class"} |-> <<"c">>], download |-> PyNone]}

\* The pages converted: no h1, an empty h1 or an h1 with every character the
\* title loses; any set of content roots; up to MaxImgs images.
SoupPages ==
    {Page(h1, h2, [k \in S |-> <<k>>], imgs) :
        h1 \in {NoElement, <<(<<>>)>>,
                <<(<<"a", "\\", "/", "*", "?", ":", "\"", "<", ">", "|", "b">>)>>},
        h2 \in {NoElement, <<(<<"b", ":">>)>>},
        S \in SUBSET {RootKinds[i] : i \in 1..Len(RootKinds)},
        imgs \in UNION {[1..n -> ImgElems] : n \in 0..MaxImgs}}

\* The first page the converter processes after the start: what
\* _process_html returns (nothing when it raises ValueError) and the content
\* area as the loop leaves it.
Extract(doc) ==
    LET r == ProcessHtml(doc)
    IN /\ ret.op = "init"
       /\ ret' = Ret("process_html", IF r.raised THEN "ValueError" ELSE "ok", NoPath, 0, FALSE,
                     <<doc, IF r.raised THEN <<>> ELSE <<r.title, r.content>>,
                       [root |-> r.root, imgs |-> r.imgs]>>)
       /\ UNCHANGED <<os_sep, storeVars, clock, sessionVars, guiVars>>

InitExtract == InitHost("/") \/ InitHost("\\")

NextExtract == \E doc \in SoupPages : Extract(doc)

SpecExtract == InitExtract /\ [][NextExtract]_vars

\* C18: after _process_html, on every host, each img element of the content
\* area that has a source has exactly the attributes src = 'images/<file name>'
\* and alt = 'image' when its download returned a file name, and its original
\* attributes when the download returned None; the failed download does not
\* make the extraction raise, and the images after it are processed all the same.
C18_ImagesRewrittenOrKept ==
    ret.op = "process_html" =>
        LET doc == ret.res[1]
            elems == ret.res[3].imgs
            source(img) == \E a \in {"data-src", "src"} :
                               a \in DOMAIN img.attrs /\ img.attrs[a] # <<>>
        IN /\ ret.exit = "ValueError" <=> DOMAIN doc.roots = {}
           /\ ret.exit = "ok" =>
                  /\ Len(elems) = Len(doc.imgs)
                  /\ \A i \in 1..Len(doc.imgs) :
                         source(doc.imgs[i]) =>
                             IF doc.imgs[i].download \in ImgNames
                             THEN /\ DOMAIN elems[i] = {"src", "alt"}
                                  /\ elems[i]["src"] = <<"images", "/">> \o doc.imgs[i].download
                                  /\ elems[i]["alt"] = <<"image">>
                             ELSE elems[i] = doc.imgs[i].attrs

\* C18 witness: on the backslash host, a page whose first image fails to
\* download and keeps its attributes and whose second image is rewritten.
C18_Witness ==
    /\ ret.op = "process_html"
    /\ ret.exit = "ok"
    /\ os_sep = "\\"
    /\ Len(ret.res[1].imgs) = 2
    /\ ret.res[1].imgs[1].download = PyNone
    /\ "src" \in DOMAIN ret.res[1].imgs[1].attrs
    /\ ret.res[3].imgs[1] = ret.res[1].imgs[1].attrs
    /\ ret.res[1].imgs[2].download \in ImgNames
    /\ DOMAIN ret.res[3].imgs[2] = {"src", "alt"}

\* C19: the content area _process_html converts is the first the page has of
\* div#js_content, article, main and body, and the Markdown returned starts
\* with its text; a page with none of the four makes it raise ValueError and
\* return no (title, content) pair.
C19_FirstExistingRoot ==
    ret.op = "process_html" =>
        LET doc == ret.res[1]
            has(k) == k \in DOMAIN doc.roots
            first == IF has("js_content") THEN "js_content"
                     ELSE IF has("article") THEN "article"
                     ELSE IF has("main") THEN "main" ELSE "body"
        IN IF ~has("js_content") /\ ~has("article") /\ ~has("main") /\ ~has("body")
           THEN ret.exit = "ValueError" /\ ret.res[2] = <<>>
           ELSE /\ ret.exit = "ok"
                /\ ret.res[3].root = <<first>>
                /\ Len(ret.res[2]) = 2
                /\ StartsWith(ret.res[2][2], doc.roots[first])

\* C19 witness: a page with an article, a main element and a body and no
\* div#js_content: the article is converted.
C19_Witness ==
    /\ ret.op = "process_html"
    /\ DOMAIN ret.res[1].roots = {"article", "main", "body"}
    /\ ret.res[3].root = <<"article">>

\* C20: the title _process_html returns is the text of the first h1, else of
\* the h2 of class rich_media_title, else 'Untitled Article', without the
\* characters \ / * ? : " < > |; it contains none of them.
C20_TitleSanitized ==
    (ret.op = "process_html" /\ ret.exit = "ok") =>
        LET doc == ret.res[1]
            title == ret.res[2][1]
            illegal == {"\\", "/", "*", "?", ":", "\"", "<", ">", "|"}
            text == IF doc.h1 # <<>> THEN doc.h1[1]
                    ELSE IF doc.h2 # <<>> THEN doc.h2[1]
                    ELSE <<"Untitled", " ", "Article">>
        IN /\ title = SelectSeq(text, LAMBDA c : c \notin illegal)
           /\ \A i \in 1..Len(title) : title[i] \notin illegal

\* C20 witness: a page with an h1 that holds all nine characters and with a
\* rich_media_title: the title is the h1 text without them.
C20_Witness ==
    /\ ret.op = "process_html"
    /\ ret.exit = "ok"
    /\ ret.res[1].h1 = <<(<<"a", "\\", "/", "*", "?", ":", "\"", "<", ">", "|", "b">>)>>
    /\ ret.res[1].h2 # NoElement
    /\ ret.res[2][1] = <<"a", "b">>

(* The start of the store on a sidecar of any content. *)

\* The sidecars found at the start: none, text that is no JSON, the JSON
\* array [], the empty object, an object with the record of note a.
LoadSidecars ==
    {NoSidecar,
     [exists |-> TRUE, kind |-> "malformed", json |-> <<>>],
     [exists |-> TRUE, kind |-> "array", json |-> <<>>],
     Dump(<<>>),
     Dump([k \in {<<"a">>} |-> [NewRecord(0) EXCEPT !.summary = <<"t", ".", ".", ".">>]])}

\* The notes folder at the start: empty, or with note a.
InitLoad ==
    /\ os_sep = "/"
    /\ fs \in {<<>>, [q \in {<<(<<"a">>)>>} |-> LooseNote]}
    /\ sidecar \in LoadSidecars
    /\ metadata = LoadMetadata
    /\ clock = 0
    /\ driver = "None"
    /\ browser = "none"
    /\ dialog = NoDialog
    /\ selected = NoPath
    /\ editor = NoEditor
    /\ ret = Ret("init", "ok", NoPath, 0, FALSE, <<>>)

\* save_note on the store as loaded: on a list, 'rel_path not in self.metadata'
\* is true and the assignment self.metadata[rel_path] = {...} (line 413) raises
\* TypeError before the file is opened.
LoadedSaveNote(path, content, t1, t2) ==
    IF MetadataIsList
    THEN /\ ~Crashed
         /\ ret' = Ret("save_note", "TypeError", NoPath, 0, TRUE, <<>>)
         /\ UNCHANGED <<os_sep, storeVars, clock, sessionVars, guiVars>>
    ELSE SaveNote(path, content, t1, t2)

\* get_item_metadata on the store as loaded, as _populate_tree calls it for a
\* file (line 1021): a list has no get, self.metadata.get (line 401) raises
\* AttributeError.
LoadedGetItemMetadata(path) ==
    /\ ~Crashed
    /\ IsFile(path)
    /\ ret' = IF MetadataIsList
              THEN Ret("get_item_metadata", "AttributeError", NoPath, 0, TRUE, <<>>)
              ELSE Ret("get_item_metadata", "ok", Some(path), 0, FALSE,
                       <<GetItemMetadata(path).meta>>)
    /\ UNCHANGED <<os_sep, storeVars, clock, sessionVars, guiVars>>

NextLoad ==
    \/ \E q \in MetaPaths, c \in MetaTexts, tt \in Stamps(clock, MaxClock) :
           LoadedSaveNote(q, c, tt[1], tt[2])
    \/ \E q \in MetaPaths : LoadedGetItemMetadata(q)
    \/ \E q \in MetaPaths : TogglePinned(q)
    \/ Restart

SpecLoad == InitLoad /\ [][NextLoad]_vars

\* C21: whatever the sidecar held at the start (absent, no JSON, JSON that is
\* no object), the store works as on an empty map: save_note on a path that
\* can be written does not raise and leaves a record of the path, and
\* get_item_metadata of an existing file does not raise.
C21_LoadNeverSurfacesFailure ==
    [][/\ \A q \in MetaPaths, c \in MetaTexts, tt \in Stamps(clock, MaxClock) :
              (LoadedSaveNote(q, c, tt[1], tt[2]) /\ CanOpenForWrite(q))
                  => (~ret'.raised /\ RelKey(q) \in DOMAIN metadata')
       /\ \A q \in MetaPaths : LoadedGetItemMetadata(q) => ~ret'.raised]_vars

C23_FolderDeleteKeepsOthers ==
    [][\A q \in AllPaths :
           (DeleteItem(q) /\ IsDir(q))
               => \A k \in DOMAIN metadata :
                      (k # RelKey(q) /\ ~StartsWith(k, RelKey(q) \o <<"/">>))
                          => (k \in DOMAIN metadata' /\ metadata'[k] = metadata[k])]_vars

\* C24: after every operation of the store, also one that failed or raised,
\* every key of the map in memory is the key of an existing regular file under
\* the notes root.
C24_KeysNameFiles ==
    \A k \in DOMAIN metadata : \E q \in DOMAIN fs : IsFile(q) /\ RelKey(q) = k

(* Names with a backslash on a POSIX host. *)

\* A folder a, a note b in it or in the root, and a note whose name is a\b: on
\* a POSIX host the backslash is a character of the name.
KeyPaths == {<<(<<"a">>)>>, <<(<<"b">>)>>, <<(<<"a">>), (<<"b">>)>>, <<(<<"a", "\\", "b">>)>>}

NextKeys ==
    \/ \E q \in KeyPaths, f \in BOOLEAN, c \in Texts, tt \in Stamps(clock, MaxClock) :
           CreateItem(Dirname(q), Basename(q), f, <<c>>, tt[1], tt[2])
    \/ \E q \in KeyPaths, m \in Summaries : UpdateSummary(q, m)
    \/ \E q \in KeyPaths : TogglePinned(q)
    \/ \E q \in KeyPaths : ToggleFavorite(q)
    \/ \E q \in KeyPaths : DeleteItem(q)
    \/ Restart

SpecKeys == InitMove /\ [][NextKeys]_vars

\* C25: two distinct existing note files never have the same metadata key, so
\* toggle_pinned, toggle_favorite and update_summary on one note leave what
\* get_item_metadata returns for every other note as it was.
C25_KeysInjective ==
    [][\A q \in KeyPaths :
           (TogglePinned(q) \/ ToggleFavorite(q) \/ \E m \in Summaries : UpdateSummary(q, m))
               => \A p \in DOMAIN fs :
                      (IsFile(p) /\ IsFile(q) /\ p # q)
                          => /\ RelKey(p) # RelKey(q)
                             /\ (GetItemMetadata(p).meta)' = GetItemMetadata(p).meta]_vars

(* The editor of the main window. *)

\* The user types in the editor: the document is modified.
EditText(text) ==
    /\ ~Crashed
    /\ ~dialog.open
    /\ text # editor.text
    /\ editor' = [editor EXCEPT !.text = text, !.modified = TRUE]
    /\ ret' = Ret("edit", "ok", NoPath, 0, FALSE, <<>>)
    /\ UNCHANGED <<os_sep, storeVars, clock, sessionVars, selected>>

\* MainWindow.save_current_note, lines 1104-1113: with a current note and a
\* modified document, save_note, setModified(False) and load_notes_tree; a
\* save_note that raises ends the handler there.
SaveCurrentNote(t1, t2) ==
    /\ ~Crashed
    /\ ~dialog.open
    /\ IF editor.path # NoPath /\ editor.modified
       THEN /\ save_note(editor.path[1], editor.text, t1, t2)
            /\ IF CanOpenForWrite(editor.path[1])
               THEN /\ editor' = [editor EXCEPT !.modified = FALSE]
                    /\ selected' = NoPath
                    /\ ret' = Ret("save_current_note", "saved", editor.path, 0, FALSE, <<>>)
               ELSE /\ ret' = Ret("save_current_note", "raised", NoPath, 0, TRUE, <<>>)
                    /\ UNCHANGED guiVars
       ELSE /\ ret' = Ret("save_current_note", "nothing_to_save", NoPath, 0, FALSE, <<>>)
            /\ UNCHANGED <<storeVars, clock, guiVars>>
    /\ InBounds(fs', metadata')
    /\ UNCHANGED <<os_sep, sessionVars>>

\* MainWindow.on_note_selected, lines 1072-1081, on a note while the editor
\* holds modified text of a current note: save_current_note first, then the
\* clicked note becomes the current one.
SelectItemSaving(path, t1, t2) ==
    /\ ~Crashed
    /\ ~dialog.open
    /\ editor.path # NoPath /\ editor.modified
    /\ IsFile(path)
    /\ save_note(editor.path[1], editor.text, t1, t2)
    /\ IF CanOpenForWrite(editor.path[1])
       THEN /\ editor' = [path |-> Some(path), text |-> ReadText(fs'[path].data),
                          modified |-> FALSE]
            /\ selected' = NoPath
            /\ ret' = Ret("on_note_selected", "saved", editor.path, 0, FALSE, <<>>)
       ELSE /\ ret' = Ret("on_note_selected", "raised", NoPath, 0, TRUE, <<>>)
            /\ UNCHANGED guiVars
    /\ InBounds(fs', metadata')
    /\ UNCHANGED <<os_sep, sessionVars>>

\* show_tree_context_menu, "rename" (lines 1255-1263): the dialog is accepted
\* with a name other than the old one; the tree is loaded again when
\* rename_item reports no error.  current_note_path is not touched.
MenuRename(path, new_name) ==
    /\ ~Crashed
    /\ ~dialog.open
    /\ path \in DOMAIN fs
    /\ new_name # Basename(path)
    /\ rename_item("menu_rename", path, new_name)
    /\ selected' = IF ret'.exit = "renamed" THEN NoPath ELSE selected
    /\ UNCHANGED editor
    /\ InBounds(fs', metadata')
    /\ UNCHANGED <<os_sep, clock, sessionVars>>

\* show_tree_context_menu, "delete" (lines 1264-1273), confirmed: the editor
\* is cleared when the deleted path is current_note_path.
MenuDelete(path) ==
    /\ ~Crashed
    /\ ~dialog.open
    /\ path \in DOMAIN fs
    /\ delete_item("menu_delete", path)
    /\ selected' = NoPath
    /\ editor' = IF Some(path) = editor.path THEN NoEditor ELSE editor
    /\ UNCHANGED <<os_sep, clock, sessionVars>>

\* The notes and folders of the editor's runs.
EditorNames == {<<"a">>, <<"c">>}
EditorPaths == {<<c>> : c \in EditorNames} \cup {<<(<<"c">>), (<<"a">>)>>}

NextEditor ==
    \/ \E q \in EditorPaths, f \in BOOLEAN :
           CreateItem(Dirname(q), Basename(q), f, <<(<<"t">>)>>, clock, clock)
    \/ \E q \in EditorPaths : SelectItem(q)
    \/ \E q \in EditorPaths, tt \in Stamps(clock, MaxTreeClock) : SelectItemSaving(q, tt[1], tt[2])
    \/ \E c \in {<<"t">>, <<"u">>} : EditText(c)
    \/ \E tt \in Stamps(clock, MaxTreeClock) : SaveCurrentNote(tt[1], tt[2])
    \/ \E q \in EditorPaths, n \in EditorNames : MenuRename(q, n)
    \/ \E q \in EditorPaths : MenuDelete(q)
    \/ \E q \in EditorPaths, t \in {NoPath} \cup {Some(d) : d \in EditorPaths} : DropEvent(q, t)
    \/ Restart

SpecEditor == InitMove /\ [][NextEditor]_vars

\* C26: after every GUI action current_note_path, when set, names an existing
\* file, and save_current_note writes to no path that was not a file before:
\* it creates no file and adds no metadata record for a path without a file.
C26_CurrentNotePathIsLive ==
    [][/\ (~ret'.raised /\ editor'.path # NoPath) => (IsFile(editor.path[1]))'
       /\ \A tt \in Stamps(clock, MaxTreeClock) :
              SaveCurrentNote(tt[1], tt[2])
                  => /\ DOMAIN fs' = DOMAIN fs
                     /\ \A k \in DOMAIN metadata' \ DOMAIN metadata :
                            \E q \in DOMAIN fs : IsFile(q) /\ RelKey(q) = k]_vars

\* C27: a drop of a folder onto a destination directory that is neither the
\* folder nor inside it, and is not the folder's own parent, reaches move_item:
\* dropEvent does not ignore it as a move of a folder into itself.
C27_GuardRejectsOnlyCycles ==
    [][\A q \in AllPaths, t \in {NoPath} \cup {Some(d) : d \in AllPaths} :
           LET dest == IF t = NoPath THEN <<>>
                       ELSE IF IsDir(t[1]) THEN t[1] ELSE Dirname(t[1])
           IN (DropEvent(q, t) /\ IsDir(q) /\ ~IsPrefixPath(q, dest) /\ Dirname(q) # dest)
                  => ret'.exit \in {"moved", "move_failed", "destination_must_be_folder",
                                    "destination_exists"}]_vars

\* C28: on every exit of launch_or_get_browser the result and the handle
\* agree: when it returns None (a browser was running already, or one was
\* started) the handle is a driver with a live browser, and when it returns an
\* error message (no driver found, the browser failed to start) the handle is
\* None; a handle found dead at entry is never the handle at exit.
C28_LaunchResultMatchesHandle ==
    [][\A o \in LaunchOutcomes :
           LaunchBrowser(o)
               => /\ ret'.exit \in {"already_running", "launched", "no_driver", "launch_error"}
                  /\ ret'.exit \in {"already_running", "launched"}
                         => (driver' = "driver" /\ browser' = "alive")
                  /\ ret'.exit \in {"no_driver", "launch_error"} => driver' = "None"
                  /\ ~(driver' = "driver" /\ browser' # "alive")]_vars

\* C28 witness: a launch found the old handle dead and failed to start a
\* browser: it returned the error and left the handle None.
C28_Witness ==
    /\ ret.op = "launch_browser"
    /\ ret.exit = "launch_error"
    /\ ret.res = <<(<<"old_instance_closed">>)>>
    /\ driver = "None"

\* C29: after every launch and every scrape made in the advanced import
\* dialog, while the dialog stays open, the scrape button is enabled exactly
\* when the session handle is a driver, and the status label shows "running"
\* exactly then.
C29_ButtonFollowsHandle ==
    [][((\E o \in LaunchOutcomes : LaunchBrowser(o))
            \/ (\E d \in Documents, tt \in Stamps(clock, MaxClock) : ScrapePage(d, tt[1], tt[2])))
           => ((dialog'.open /\ ~ret'.raised)
                   => /\ dialog'.scrape_enabled <=> driver' = "driver"
                      /\ dialog'.status = "status_running" <=> driver' = "driver")]_vars

(* Imports and the listing of what they created. *)

\* The pages imported: a heading that keeps a letter, a heading made of
\* stripped characters only, and an empty heading, each with a body.
ListingUrls ==
    {<<Page(<<h>>, NoElement, [k \in {"body"} |-> <<"m">>], <<>>)>> :
        h \in {<<"a", "?">>, <<"?", ":">>, <<>>}}

NextListing ==
    \/ \E u \in ListingUrls, tt \in Stamps(clock, MaxClock) : ImportFromUrl(u, tt[1], tt[2])
    \/ \E n \in NoteNames, tt \in Stamps(clock, MaxClock) : NewNote(n, tt[1], tt[2])
    \/ \E q \in DOMAIN fs : DeleteItem(q)
    \/ \E k \in SortKeys :
           \E items \in Orders({q[1] : q \in {r \in DOMAIN fs : Len(r) = 1}}) :
               PopulateTree(<<>>, items, k)

SpecListing == InitImport /\ [][NextListing]_vars

\* C30: every note an import has created is an item of the next listing of
\* its folder made with no filter and no search text.
C30_ImportedNoteIsListed ==
    [][\A k \in SortKeys :
           \A items \in Orders({q[1] : q \in {r \in DOMAIN fs : Len(r) = 1}}) :
               PopulateTree(<<>>, items, k)
                   => \A q \in DOMAIN fs :
                          (IsFile(q) /\ Len(q) = 1)
                              => \E i \in 1..Len(ret'.res) : ret'.res[i] = <<"note", q[1]>>]_vars

====
